---------------------------- MODULE Spec2Model ----------------------------
(***************************************************************************)
(* humba: fixed-width histograms of one-dimensional samples.               *)
(*                                                                         *)
(* src/humba/core.py holds the two user-facing functions, histogram and    *)
(* mwv_histogram: they build the bin edges, check the shapes, select a     *)
(* kernel of humba.jits by element type, cast one of the two arrays and    *)
(* call the kernel.  The kernels (humba.jits) are modelled from sections   *)
(* 4.1 to 4.3 of the specification.                                        *)
(*                                                                         *)
(* Numbers.  Array elements are integers, i.e. real numbers that binary    *)
(* floating point holds exactly as long as they have no more significant   *)
(* bits than the element type keeps.  Every range bound is a number both   *)
(* precisions hold, and every weight and every per-bin sum of the model    *)
(* stays below 2^24, so the kernels' sums are exact in both precisions.    *)
(* A sample with more than 24 significant bits exists only in float64 and  *)
(* int64 arrays and is rounded by a cast to float32.                       *)
(***************************************************************************)
EXTENDS Integers, Sequences, FiniteSets

VARIABLES
    call,           \* which function of core.py is called
    args,           \* its arguments: [x, bins, range, weights, flow]
    pc,             \* "idle" before the call, "done" after it
    outcome,        \* what the caller gets: the exception or the 3-tuple
    kernel_calls    \* the kernel invocations the call made, in order

vars == <<call, args, pc, outcome, kernel_calls>>

---------------------------------------------------------------------------
(* Bounds of the model. *)

\* longest sample array, longest weight array, most rows of a weight matrix
MaxLen == 2

---------------------------------------------------------------------------
(* numpy arrays and element types *)

\* significant bits of a numpy float32 (np.float32, IEEE binary32)
Float32Precision == 24

Dtypes == {"float64", "float32", "int64"}

Abs(v) == IF v < 0 THEN -v ELSE v

\* v rounded to the nearest number with at most p significant bits, ties to
\* the even significand (IEEE round-to-nearest-even).
RoundToPrecision(v, p) ==
    IF Abs(v) <= 2^p THEN v
    ELSE LET a    == Abs(v)
             e    == CHOOSE k \in 1..6 : (a \div 2^k) < 2^p /\ (a \div 2^(k-1)) >= 2^p
             q    == 2^e
             r    == a % q
             down == a - r
             up   == down + q
             near == IF 2 * r < q THEN down
                     ELSE IF 2 * r > q THEN up
                     ELSE IF (down \div q) % 2 = 0 THEN down ELSE up
         IN  IF v < 0 THEN -near ELSE near

\* The value an element of type dtype holds for the number v.  float64 keeps
\* 53 significant bits and int64 63: every integer of the model is exact.
Round(v, dtype) ==
    IF dtype = "float32" THEN RoundToPrecision(v, Float32Precision) ELSE v

Representable(v, dtype) == Round(v, dtype) = v

\* Python's None
None == [dtype |-> "NoneType", shape |-> <<>>, data |-> <<>>]

\* a one-dimensional array
Array1(dtype, values) ==
    [dtype |-> dtype, shape |-> <<Len(values)>>, data |-> values]

\* a two-dimensional array of shape (n, m), given by its n rows
Array2(dtype, n, m, rows) ==
    [dtype |-> dtype, shape |-> <<n, m>>, data |-> rows]

\* ndarray.astype(dtype): every element converted to dtype
astype(a, dtype) ==
    [dtype |-> dtype,
     shape |-> a.shape,
     data  |-> IF Len(a.shape) = 1
               THEN [i \in DOMAIN a.data |-> Round(a.data[i], dtype)]
               ELSE [i \in DOMAIN a.data |->
                        [j \in DOMAIN a.data[i] |-> Round(a.data[i][j], dtype)]]]

\* An exact fraction num/den.
Frac(num, den) == [num |-> num, den |-> den]

\* np.linspace(start, stop, num): num evenly spaced numbers from start to stop
linspace(start, stop, num) ==
    IF num = 1 THEN <<Frac(start, 1)>>
    ELSE [i \in 1..num |-> Frac(start * (num - 1) + (i - 1) * (stop - start), num - 1)]

---------------------------------------------------------------------------
(* The binning kernels, humba.jits (sections 4.1 to 4.3 of the            *)
(* specification).  Bin i of the code is element i + 1 of a sequence.      *)

\* the square root of n, kept exact: two roots are equal iff their radicands are
Sqrt(n) == [radicand |-> n]

\* idx = floor((x - lo) / bin_width) with bin_width = (hi - lo) / bins
bin_index(v, bins, lo, hi) == ((v - lo) * bins) \div (hi - lo)

\* The bin a sample of index idx is counted in, or -1 when it is dropped.
resolve_bin(idx, bins, flow) ==
    IF 0 <= idx /\ idx < bins THEN idx
    ELSE IF idx < 0 THEN (IF flow THEN 0 ELSE -1)
    ELSE (IF flow THEN bins - 1 ELSE -1)

\* 4.1: the counts after the first n samples
RECURSIVE bin_counts_pass(_, _, _, _, _, _)
bin_counts_pass(samples, n, bins, lo, hi, flow) ==
    IF n = 0 THEN [i \in 1..bins |-> 0]
    ELSE LET count == bin_counts_pass(samples, n - 1, bins, lo, hi, flow)
             b     == resolve_bin(bin_index(samples[n], bins, lo, hi), bins, flow)
         IN  IF b < 0 THEN count ELSE [count EXCEPT ![b + 1] = @ + 1]

bin_counts(samples, bins, lo, hi, flow) ==
    bin_counts_pass(samples, Len(samples), bins, lo, hi, flow)

\* 4.2: the weighted sums and the sums of squared weights after n samples
RECURSIVE bin_weighted_pass(_, _, _, _, _, _, _)
bin_weighted_pass(samples, w, n, bins, lo, hi, flow) ==
    IF n = 0 THEN [counts |-> [i \in 1..bins |-> 0], sumsq |-> [i \in 1..bins |-> 0]]
    ELSE LET acc == bin_weighted_pass(samples, w, n - 1, bins, lo, hi, flow)
             b   == resolve_bin(bin_index(samples[n], bins, lo, hi), bins, flow)
         IN  IF b < 0 THEN acc
             ELSE [counts |-> [acc.counts EXCEPT ![b + 1] = @ + w[n]],
                   sumsq  |-> [acc.sumsq EXCEPT ![b + 1] = @ + w[n] * w[n]]]

bin_weighted(samples, w, bins, lo, hi, flow) ==
    LET acc == bin_weighted_pass(samples, w, Len(samples), bins, lo, hi, flow)
    IN  [counts |-> acc.counts,
         errors |-> [i \in 1..bins |-> Sqrt(acc.sumsq[i])]]

\* 4.3: one pass over the samples, every column j accumulated in the resolved bin
RECURSIVE bin_multiweighted_pass(_, _, _, _, _, _, _, _)
bin_multiweighted_pass(samples, w, m, n, bins, lo, hi, flow) ==
    IF n = 0 THEN [counts |-> [i \in 1..bins |-> [j \in 1..m |-> 0]],
                   sumsq  |-> [i \in 1..bins |-> [j \in 1..m |-> 0]]]
    ELSE LET acc == bin_multiweighted_pass(samples, w, m, n - 1, bins, lo, hi, flow)
             b   == resolve_bin(bin_index(samples[n], bins, lo, hi), bins, flow)
         IN  IF b < 0 THEN acc
             ELSE [counts |-> [acc.counts EXCEPT ![b + 1] =
                                  [j \in 1..m |-> @[j] + w[n][j]]],
                   sumsq  |-> [acc.sumsq EXCEPT ![b + 1] =
                                  [j \in 1..m |-> @[j] + w[n][j] * w[n][j]]]]

bin_multiweighted(samples, w, m, bins, lo, hi, flow) ==
    LET acc == bin_multiweighted_pass(samples, w, m, Len(samples), bins, lo, hi, flow)
    IN  [counts |-> acc.counts,
         errors |-> [i \in 1..bins |-> [j \in 1..m |-> Sqrt(acc.sumsq[i][j])]]]

\* The precision of a kernel of humba.jits: there is one kernel per call shape
\* and precision.
KernelDtype(hfunc) ==
    IF hfunc \in {"_hfloat64", "_hfloat64_weighted", "_hfloat64_multiweights"}
    THEN "float64" ELSE "float32"

\* hfunc(data, bins, xmin, xmax, flow): the count array
_hfloat(hfunc, data, bins, xmin, xmax, flow) ==
    Array1(KernelDtype(hfunc), bin_counts(data.data, bins, xmin, xmax, flow))

\* hfunc(data, w, bins, xmin, xmax, flow): the pair (count, error)
_hfloat_weighted(hfunc, data, w, bins, xmin, xmax, flow) ==
    LET r == bin_weighted(data.data, w.data, bins, xmin, xmax, flow)
    IN  <<Array1(KernelDtype(hfunc), r.counts), Array1(KernelDtype(hfunc), r.errors)>>

\* hfunc(data, w, bins, xmin, xmax, flow) for a weight matrix: (count, error),
\* both of shape (bins, w.shape[1])
_hfloat_multiweights(hfunc, data, w, bins, xmin, xmax, flow) ==
    LET m == w.shape[2]
        r == bin_multiweighted(data.data, w.data, m, bins, xmin, xmax, flow)
    IN  <<Array2(KernelDtype(hfunc), bins, m, r.counts),
          Array2(KernelDtype(hfunc), bins, m, r.errors)>>

\* The record of one kernel invocation.
KernelCall(hfunc, data, w, bins, xmin, xmax, flow) ==
    [hfunc |-> hfunc, data |-> data, w |-> w, bins |-> bins,
     xmin |-> xmin, xmax |-> xmax, flow |-> flow]

---------------------------------------------------------------------------
(* The dispatch layer, src/humba/core.py *)

\* What a call gives its caller: the exception raised, or the returned tuple
\* (count, error, edges); and the kernel invocations it made.
Raise(exception) ==
    [raised |-> exception, ret |-> <<>>, kernel_calls |-> <<>>]

Return(count, error, edges, invoked) ==
    [raised |-> "", ret |-> <<count, error, edges>>, kernel_calls |-> <<invoked>>]

\* edges_of with one point too few: np.linspace(range[0], range[1], bins)
edges_of_bins_points(bins, range) == linspace(range[1], range[2], bins)

\* edges = np.linspace(range[0], range[1], bins + 1); range[0], range[1] of
\* the code are range[1], range[2] here.
edges_of(bins, range) == linspace(range[1], range[2], bins + 1)

\* histogram_weighted with the flow flag not handed to the kernel
histogram_weighted_without_flow(x, bins, range, weights, flow) ==
    IF x.shape # weights.shape
    THEN Raise("AssertionError")
    ELSE IF x.dtype = "float64"
    THEN LET w   == astype(weights, x.dtype)
             res == _hfloat_weighted("_hfloat64_weighted", x, w, bins,
                                     range[1], range[2], FALSE)
         IN  Return(res[1], res[2], edges_of(bins, range),
                    KernelCall("_hfloat64_weighted", x, w, bins, range[1], range[2], FALSE))
    ELSE IF x.dtype = "float32"
    THEN LET w   == astype(weights, x.dtype)
             res == _hfloat_weighted("_hfloat32_weighted", x, w, bins,
                                     range[1], range[2], FALSE)
         IN  Return(res[1], res[2], edges_of(bins, range),
                    KernelCall("_hfloat32_weighted", x, w, bins, range[1], range[2], FALSE))
    ELSE Raise("TypeError")

\* histogram_weighted with the shape check weakened to
\* assert x.shape[0] <= weights.shape[0]
histogram_weighted_weak_assert(x, bins, range, weights, flow) ==
    IF ~(x.shape[1] <= weights.shape[1])
    THEN Raise("AssertionError")
    ELSE IF x.dtype = "float64"
    THEN LET w   == astype(weights, x.dtype)
             res == _hfloat_weighted("_hfloat64_weighted", x, w, bins,
                                     range[1], range[2], flow)
         IN  Return(res[1], res[2], edges_of(bins, range),
                    KernelCall("_hfloat64_weighted", x, w, bins, range[1], range[2], flow))
    ELSE IF x.dtype = "float32"
    THEN LET w   == astype(weights, x.dtype)
             res == _hfloat_weighted("_hfloat32_weighted", x, w, bins,
                                     range[1], range[2], flow)
         IN  Return(res[1], res[2], edges_of(bins, range),
                    KernelCall("_hfloat32_weighted", x, w, bins, range[1], range[2], flow))
    ELSE Raise("TypeError")

\* histogram, weights given: the shape check, the kernel selected by x.dtype,
\* the weights cast to x.dtype, the kernel call
histogram_weighted(x, bins, range, weights, flow) ==
    IF x.shape # weights.shape
    THEN Raise("AssertionError")
    ELSE IF x.dtype = "float64"
    THEN LET w   == astype(weights, x.dtype)
             res == _hfloat_weighted("_hfloat64_weighted", x, w, bins,
                                     range[1], range[2], flow)
         IN  Return(res[1], res[2], edges_of(bins, range),
                    KernelCall("_hfloat64_weighted", x, w, bins, range[1], range[2], flow))
    ELSE IF x.dtype = "float32"
    THEN LET w   == astype(weights, x.dtype)
             res == _hfloat_weighted("_hfloat32_weighted", x, w, bins,
                                     range[1], range[2], flow)
         IN  Return(res[1], res[2], edges_of(bins, range),
                    KernelCall("_hfloat32_weighted", x, w, bins, range[1], range[2], flow))
    ELSE Raise("TypeError")

\* histogram_unweighted with the flow flag not handed to the kernel
histogram_unweighted_without_flow(x, bins, range, flow) ==
    IF x.dtype = "float64"
    THEN Return(_hfloat("_hfloat64", x, bins, range[1], range[2], FALSE),
                None, edges_of(bins, range),
                KernelCall("_hfloat64", x, None, bins, range[1], range[2], FALSE))
    ELSE IF x.dtype = "float32"
    THEN Return(_hfloat("_hfloat32", x, bins, range[1], range[2], FALSE),
                None, edges_of(bins, range),
                KernelCall("_hfloat32", x, None, bins, range[1], range[2], FALSE))
    ELSE Raise("TypeError")

\* histogram_unweighted with the flow flag always set
histogram_unweighted_always_flow(x, bins, range, flow) ==
    IF x.dtype = "float64"
    THEN Return(_hfloat("_hfloat64", x, bins, range[1], range[2], TRUE),
                None, edges_of(bins, range),
                KernelCall("_hfloat64", x, None, bins, range[1], range[2], TRUE))
    ELSE IF x.dtype = "float32"
    THEN Return(_hfloat("_hfloat32", x, bins, range[1], range[2], TRUE),
                None, edges_of(bins, range),
                KernelCall("_hfloat32", x, None, bins, range[1], range[2], TRUE))
    ELSE Raise("TypeError")

\* histogram_unweighted with the final else selecting the float32 kernel
\* instead of raising
histogram_unweighted_any_dtype(x, bins, range, flow) ==
    IF x.dtype = "float64"
    THEN Return(_hfloat("_hfloat64", x, bins, range[1], range[2], flow),
                None, edges_of(bins, range),
                KernelCall("_hfloat64", x, None, bins, range[1], range[2], flow))
    ELSE Return(_hfloat("_hfloat32", x, bins, range[1], range[2], flow),
                None, edges_of(bins, range),
                KernelCall("_hfloat32", x, None, bins, range[1], range[2], flow))

\* histogram, weights None: the kernel selected by x.dtype, the kernel call
histogram_unweighted(x, bins, range, flow) ==
    IF x.dtype = "float64"
    THEN Return(_hfloat("_hfloat64", x, bins, range[1], range[2], flow),
                None, edges_of(bins, range),
                KernelCall("_hfloat64", x, None, bins, range[1], range[2], flow))
    ELSE IF x.dtype = "float32"
    THEN Return(_hfloat("_hfloat32", x, bins, range[1], range[2], flow),
                None, edges_of(bins, range),
                KernelCall("_hfloat32", x, None, bins, range[1], range[2], flow))
    ELSE Raise("TypeError")

\* histogram(x, bins, range, weights, flow)
histogram(x, bins, range, weights, flow) ==
    IF weights # None
    THEN histogram_weighted(x, bins, range, weights, flow)
    ELSE histogram_unweighted(x, bins, range, flow)

\* mwv_histogram with the flow flag not handed to the kernel
mwv_histogram_without_flow(x, weights, bins, range, flow) ==
    IF x.shape[1] # weights.shape[1]
    THEN Raise("AssertionError")
    ELSE IF weights.dtype = "float64"
    THEN LET xc  == astype(x, weights.dtype)
             res == _hfloat_multiweights("_hfloat64_multiweights", xc, weights, bins,
                                         range[1], range[2], FALSE)
         IN  Return(res[1], res[2], edges_of(bins, range),
                    KernelCall("_hfloat64_multiweights", xc, weights, bins,
                               range[1], range[2], FALSE))
    ELSE IF weights.dtype = "float32"
    THEN LET xc  == astype(x, weights.dtype)
             res == _hfloat_multiweights("_hfloat32_multiweights", xc, weights, bins,
                                         range[1], range[2], FALSE)
         IN  Return(res[1], res[2], edges_of(bins, range),
                    KernelCall("_hfloat32_multiweights", xc, weights, bins,
                               range[1], range[2], FALSE))
    ELSE Raise("TypeError")

\* mwv_histogram(x, weights, bins, range, flow)
mwv_histogram(x, weights, bins, range, flow) ==
    IF x.shape[1] # weights.shape[1]
    THEN Raise("AssertionError")
    ELSE IF weights.dtype = "float64"
    THEN LET xc  == astype(x, weights.dtype)
             res == _hfloat_multiweights("_hfloat64_multiweights", xc, weights, bins,
                                         range[1], range[2], flow)
         IN  Return(res[1], res[2], edges_of(bins, range),
                    KernelCall("_hfloat64_multiweights", xc, weights, bins,
                               range[1], range[2], flow))
    ELSE IF weights.dtype = "float32"
    THEN LET xc  == astype(x, weights.dtype)
             res == _hfloat_multiweights("_hfloat32_multiweights", xc, weights, bins,
                                         range[1], range[2], flow)
         IN  Return(res[1], res[2], edges_of(bins, range),
                    KernelCall("_hfloat32_multiweights", xc, weights, bins,
                               range[1], range[2], flow))
    ELSE Raise("TypeError")

---------------------------------------------------------------------------
(* The inputs of a call *)

SampleValues == {-1, 0, 1, 16777219}
WeightValues == {1, 2}
BinCounts    == {1, 2}
Ranges       == {<<-1, 1>>, <<0, 1>>, <<0, 16777220>>}
Columns      == {1, 2}

SeqsUpTo(S, n) == UNION {[1..k -> S] : k \in 0..n}

\* the one-dimensional arrays of element type dtype over the values it holds
Arrays1(dtype, values) ==
    {Array1(dtype, s) : s \in SeqsUpTo({v \in values : Representable(v, dtype)}, MaxLen)}

\* the weight matrices of element type dtype
Arrays2(dtype, values) ==
    UNION {UNION {{Array2(dtype, n, m, rows) : rows \in [1..n -> [1..m -> values]]}
                    : m \in Columns} : n \in 0..MaxLen}

Samples      == UNION {Arrays1(d, SampleValues) : d \in Dtypes}
WeightArrays == UNION {Arrays1(d, WeightValues) : d \in Dtypes}
WeightMatrices == UNION {Arrays2(d, WeightValues) : d \in Dtypes}

Args(x, bins, range, weights, flow) ==
    [x |-> x, bins |-> bins, range |-> range, weights |-> weights, flow |-> flow]

\* Scenarios 1 and 2 of the specification, samples [-1, 0, 5, 9.9, 10, 11] in
\* (0, 10) with 10 bins, on the grid of tenths: x, lo and hi times 10, which
\* leaves (x - lo) / bin_width as it is.
Scenario1 == Args(Array1("float64", <<-10, 0, 50, 99, 100, 110>>), 10, <<0, 100>>, None, FALSE)
Scenario2 == Args(Array1("float64", <<-10, 0, 50, 99, 100, 110>>), 10, <<0, 100>>, None, TRUE)
\* Scenario 3: samples [1, 1, 1], weights [2, 3, 5], one bin over (0, 2)
Scenario3 == Args(Array1("float64", <<1, 1, 1>>), 1, <<0, 2>>,
                  Array1("float64", <<2, 3, 5>>), FALSE)
\* Scenario 4: samples [1, 1], weights [[2, 10], [3, 20]], one bin over (0, 2)
Scenario4 == Args(Array1("float64", <<1, 1>>), 1, <<0, 2>>,
                  Array2("float64", 2, 2, <<<<2, 10>>, <<3, 20>>>>), FALSE)

\* the scenarios of the specification, by the function they call
HistogramScenarios    == {Scenario1, Scenario2, Scenario3}
MwvHistogramScenarios == {Scenario4}

---------------------------------------------------------------------------
(* One call of the library.  The functions keep no state between calls, so *)
(* a behaviour is a single call: its arguments are drawn when it is made.  *)

NoArgs  == Args(None, 0, <<>>, None, FALSE)
Pending == [raised |-> "pending", ret |-> <<>>]

Init ==
    /\ pc = "idle"
    /\ call = ""
    /\ args = NoArgs
    /\ outcome = Pending
    /\ kernel_calls = <<>>

\* the caller calls histogram with arguments a
HistogramCall(a) ==
    LET r == histogram(a.x, a.bins, a.range, a.weights, a.flow)
    IN  /\ args' = a
        /\ outcome' = [raised |-> r.raised, ret |-> r.ret]
        /\ kernel_calls' = r.kernel_calls
        /\ call' = "histogram"
        /\ pc' = "done"

Histogram ==
    /\ pc = "idle"
    /\ \/ \E x \in Samples, bins \in BinCounts, range \in Ranges,
             weights \in {None} \cup WeightArrays, flow \in BOOLEAN :
             HistogramCall(Args(x, bins, range, weights, flow))
       \/ \E a \in HistogramScenarios : HistogramCall(a)

\* the caller calls mwv_histogram with arguments a
MwvHistogramCall(a) ==
    LET r == mwv_histogram(a.x, a.weights, a.bins, a.range, a.flow)
    IN  /\ args' = a
        /\ outcome' = [raised |-> r.raised, ret |-> r.ret]
        /\ kernel_calls' = r.kernel_calls
        /\ call' = "mwv_histogram"
        /\ pc' = "done"

MwvHistogram ==
    /\ pc = "idle"
    /\ \/ \E x \in Samples, bins \in BinCounts, range \in Ranges,
             weights \in WeightMatrices, flow \in BOOLEAN :
             MwvHistogramCall(Args(x, bins, range, weights, flow))
       \/ \E a \in MwvHistogramScenarios : MwvHistogramCall(a)

Next == Histogram \/ MwvHistogram

Spec == Init /\ [][Next]_vars

---------------------------------------------------------------------------
(* Properties *)

Floats == {"float64", "float32"}

Returned == pc = "done" /\ outcome.raised = ""

\* a call of histogram without weights has returned
UnweightedReturned == Returned /\ call = "histogram" /\ args.weights = None

\* a call of histogram with weights has returned
WeightedReturned == Returned /\ call = "histogram" /\ args.weights # None

\* a call of mwv_histogram has returned
MultiReturned == Returned /\ call = "mwv_histogram"

RECURSIVE SumSeq(_)
SumSeq(s) == IF s = <<>> THEN 0 ELSE s[Len(s)] + SumSeq(SubSeq(s, 1, Len(s) - 1))

\* the sample v lies in [lo, hi)
InRange(v, range) == range[1] <= v /\ v < range[2]

\* the sample v lies in [lo + i * bin_width, lo + (i + 1) * bin_width),
\* both sides multiplied by bins
InBin(v, i, bins, range) ==
    /\ range[1] * bins + i * (range[2] - range[1]) <= v * bins
    /\ v * bins < range[1] * bins + (i + 1) * (range[2] - range[1])

\* The positions of the samples that bin i receives: those of its interval,
\* and with flow those below lo (bin 0) and those at or above hi (bin bins - 1).
Assigned(samples, i, bins, range, flow) ==
    {n \in DOMAIN samples :
        \/ InBin(samples[n], i, bins, range)
        \/ flow /\ i = 0 /\ samples[n] < range[1]
        \/ flow /\ i = bins - 1 /\ samples[n] >= range[2]}

\* C1: an unweighted histogram with flow = true drops no sample: the counts sum
\* to the number of samples, bin 0 holds the samples below lo besides those of
\* its interval and bin bins - 1 the samples at or above hi besides its own.
C1_FlowCountsEverySample ==
    (UnweightedReturned /\ args.flow) =>
        LET samples == args.x.data
            count   == outcome.ret[1].data
            under   == {n \in DOMAIN samples : samples[n] < args.range[1]}
            over    == {n \in DOMAIN samples : samples[n] >= args.range[2]}
            first   == {n \in DOMAIN samples : InBin(samples[n], 0, args.bins, args.range)}
            last    == {n \in DOMAIN samples :
                            InBin(samples[n], args.bins - 1, args.bins, args.range)}
        IN  /\ SumSeq(count) = Len(samples)
            /\ count[1] = Cardinality(first \cup under
                                      \cup (IF args.bins = 1 THEN over ELSE {}))
            /\ count[args.bins] = Cardinality(last \cup over
                                      \cup (IF args.bins = 1 THEN under ELSE {}))

\* C1's case: flow = true, two bins, a sample below lo, one at or above hi
C1_Witness ==
    /\ UnweightedReturned /\ args.flow /\ args.bins = 2
    /\ \E n \in DOMAIN args.x.data : args.x.data[n] < args.range[1]
    /\ \E n \in DOMAIN args.x.data : args.x.data[n] >= args.range[2]
    /\ outcome.ret[1].data = <<1, 1>>

\* C2: an unweighted histogram with flow = false over samples of a supported
\* precision returns without an error, its counts sum to at most the number of
\* samples, and to exactly that number iff every sample lies in [lo, hi).
C2_NoFlowDropsOutOfRange ==
    (pc = "done" /\ call = "histogram" /\ args.weights = None /\ ~args.flow
       /\ args.x.dtype \in Floats) =>
        /\ outcome.raised = ""
        /\ LET samples == args.x.data
               count   == outcome.ret[1].data
           IN  /\ SumSeq(count) <= Len(samples)
               /\ (SumSeq(count) = Len(samples))
                    <=> (\A n \in DOMAIN samples : InRange(samples[n], args.range))

\* C2's case: flow = false, a sample out of range is dropped, one in range counted
C2_Witness ==
    /\ UnweightedReturned /\ ~args.flow
    /\ \E n \in DOMAIN args.x.data : ~InRange(args.x.data[n], args.range)
    /\ SumSeq(outcome.ret[1].data) = 1
    /\ Len(args.x.data) = 2

\* idx = floor((v - lo) / bin_width), bin_width = (hi - lo) / bins
Idx(v, bins, range) == ((v - range[1]) * bins) \div (range[2] - range[1])

\* the number of samples bin i holds by the index rule: those of idx = i, plus
\* with flow those of idx < 0 for i = 0 and those of idx >= bins for i = bins - 1
CountByIndex(samples, i, bins, range, flow) ==
    LET idx(n) == Idx(samples[n], bins, range)
    IN  Cardinality({n \in DOMAIN samples : idx(n) = i})
        + (IF flow /\ i = 0
           THEN Cardinality({n \in DOMAIN samples : idx(n) < 0}) ELSE 0)
        + (IF flow /\ i = bins - 1
           THEN Cardinality({n \in DOMAIN samples : idx(n) >= bins}) ELSE 0)

\* C3, as amended: count[i] of an unweighted histogram is the number of samples
\* of index idx = i, plus with flow those of idx < 0 for i = 0 and those of
\* idx >= bins for i = bins - 1; scenario 1 (flow = false) gives
\* [1,0,0,0,0,1,0,0,0,1] and scenario 2 (flow = true) [2,0,0,0,0,1,0,0,0,3].
C3_CountIsNumberOfSamplesOfIndex ==
    UnweightedReturned =>
        LET samples == args.x.data
            count   == outcome.ret[1].data
        IN  /\ \A i \in 0..(args.bins - 1) :
                  count[i + 1] = CountByIndex(samples, i, args.bins, args.range, args.flow)
            /\ args = Scenario1 => count = <<1, 0, 0, 0, 0, 1, 0, 0, 0, 1>>
            /\ args = Scenario2 => count = <<2, 0, 0, 0, 0, 1, 0, 0, 0, 3>>

\* C3 as stated: the same, with [2,0,0,0,0,1,0,0,0,2] for scenario 2.
C3_AsStated ==
    UnweightedReturned =>
        LET samples == args.x.data
            count   == outcome.ret[1].data
        IN  /\ \A i \in 0..(args.bins - 1) :
                  count[i + 1] = CountByIndex(samples, i, args.bins, args.range, args.flow)
            /\ args = Scenario1 => count = <<1, 0, 0, 0, 0, 1, 0, 0, 0, 1>>
            /\ args = Scenario2 => count = <<2, 0, 0, 0, 0, 1, 0, 0, 0, 2>>

\* C3's case: scenario 2 has been computed
C3_Witness ==
    /\ UnweightedReturned /\ args = Scenario2
    /\ outcome.ret[1].data = <<2, 0, 0, 0, 0, 1, 0, 0, 0, 3>>

\* the sequence s without its n-th element
Remove(s, n) == SubSeq(s, 1, n - 1) \o SubSeq(s, n + 1, Len(s))

\* What sample n adds to the counts of the returned unweighted histogram:
\* the counts, less those of the same call on the samples without it.
Contribution(n) ==
    LET rest == histogram(Array1(args.x.dtype, Remove(args.x.data, n)),
                          args.bins, args.range, None, args.flow).ret[1].data
    IN  [i \in 1..args.bins |-> outcome.ret[1].data[i] - rest[i]]

\* one count in bin b, or with b = -1 in no bin
OneIn(b, bins) == [i \in 1..bins |-> IF i = b + 1 THEN 1 ELSE 0]

\* C9: in an unweighted histogram a sample equal to lo is counted in bin 0 under
\* both flow settings; a sample equal to hi is counted in bin bins - 1 when flow
\* is true and in no bin when flow is false.
C9_BoundarySamples ==
    UnweightedReturned =>
        \A n \in DOMAIN args.x.data :
            /\ args.x.data[n] = args.range[1] =>
                  Contribution(n) = OneIn(0, args.bins)
            /\ args.x.data[n] = args.range[2] =>
                  Contribution(n) = OneIn(IF args.flow THEN args.bins - 1 ELSE -1, args.bins)

\* C9's case: flow = false, two bins, one sample at lo and one at hi: the one
\* at lo is in bin 0, the one at hi nowhere
C9_Witness ==
    /\ UnweightedReturned /\ ~args.flow /\ args.bins = 2
    /\ args.x.data = <<args.range[2], args.range[1]>>
    /\ outcome.ret[1].data = <<1, 0>>

RECURSIVE SumOver(_, _)
SumOver(S, f) ==
    IF S = {} THEN 0
    ELSE LET n == CHOOSE k \in S : TRUE IN f[n] + SumOver(S \ {n}, f)

\* C10: counts[i] of a single-weight histogram is the sum of the weights of the
\* samples the unweighted rule assigns to bin i, and errors[i] the square root
\* of the sum of their squares; scenario 3 gives counts [10], errors [sqrt(38)].
C10_WeightedSums ==
    WeightedReturned =>
        LET samples == args.x.data
            w       == args.weights.data
            sq      == [n \in DOMAIN w |-> w[n] * w[n]]
            counts  == outcome.ret[1].data
            errors  == outcome.ret[2].data
        IN  /\ \A i \in 0..(args.bins - 1) :
                  LET S == Assigned(samples, i, args.bins, args.range, args.flow)
                  IN  /\ counts[i + 1] = SumOver(S, w)
                      /\ errors[i + 1] = Sqrt(SumOver(S, sq))
            /\ args = Scenario3 => counts = <<10>> /\ errors = <<Sqrt(38)>>

\* C10's case: scenario 3 has been computed
C10_Witness ==
    /\ WeightedReturned /\ args = Scenario3
    /\ outcome.ret[1].data = <<10>>
    /\ outcome.ret[2].data = <<Sqrt(38)>>

\* C5: with an all-ones weight array the weighted histogram has the counts of
\* the unweighted histogram of the same samples, bin for bin, and
\* errors[i] = sqrt(counts[i]).
C5_UnitWeights ==
    (WeightedReturned /\ \A n \in DOMAIN args.weights.data : args.weights.data[n] = 1) =>
        LET counts     == outcome.ret[1].data
            errors     == outcome.ret[2].data
            unweighted == histogram(args.x, args.bins, args.range, None, args.flow)
        IN  /\ unweighted.raised = ""
            /\ counts = unweighted.ret[1].data
            /\ \A i \in 1..args.bins : errors[i] = Sqrt(counts[i])

\* C5's case: two unit weights, both samples in the same bin
C5_Witness ==
    /\ WeightedReturned
    /\ args.weights.data = <<1, 1>>
    /\ outcome.ret[1].data = <<2>>
    /\ outcome.ret[2].data = <<Sqrt(2)>>

\* column j of a weight matrix, as a weight array
Column(w, j) == Array1(w.dtype, [n \in 1..w.shape[1] |-> w.data[n][j]])

\* column j of the counts (k = 1) or errors (k = 2) mwv_histogram returned
ReturnedColumn(k, j) == [i \in 1..args.bins |-> outcome.ret[k].data[i][j]]

\* Column j of the returned counts and errors is what histogram returns for
\* the same samples with weight column j.
ColumnsAsSingleWeight ==
    \A j \in 1..args.weights.shape[2] :
        LET single == histogram(args.x, args.bins, args.range,
                                Column(args.weights, j), args.flow)
        IN  /\ single.raised = ""
            /\ ReturnedColumn(1, j) = single.ret[1].data
            /\ ReturnedColumn(2, j) = single.ret[2].data

\* C4 as stated: for every sample array of a supported precision and every
\* weight matrix, column j of the multi-weight counts and errors equals the
\* single-weight histogram of the same samples with weight column j.
C4_AsStated ==
    (MultiReturned /\ args.x.dtype \in Floats) => ColumnsAsSingleWeight

\* C4, as amended: the same for samples and weights of one element precision;
\* scenario 4 gives counts [[5, 30]] and errors [[sqrt(13), sqrt(500)]].
C4_MultiWeightIsPerColumn ==
    /\ (MultiReturned /\ args.x.dtype = args.weights.dtype) => ColumnsAsSingleWeight
    /\ (MultiReturned /\ args = Scenario4) =>
           /\ outcome.ret[1].data = <<<<5, 30>>>>
           /\ outcome.ret[2].data = <<<<Sqrt(13), Sqrt(500)>>>>

\* C4's case: two samples in one bin, two columns of different weights
C4_Witness ==
    /\ MultiReturned /\ args.x.dtype = args.weights.dtype
    /\ args.weights.data = <<<<1, 2>>, <<2, 2>>>>
    /\ outcome.ret[1].data = <<<<3, 4>>>>
    /\ outcome.ret[2].data = <<<<Sqrt(5), Sqrt(8)>>>>

\* the samples and the weights of the call disagree in shape
ShapeMismatch ==
    IF call = "histogram"
    THEN args.weights # None /\ args.x.shape # args.weights.shape
    ELSE args.x.shape[1] # args.weights.shape[1]

\* C6: a call whose samples and weights disagree in shape fails with the
\* assertion's error, returns nothing and invokes no kernel; no kernel
\* invocation receives samples and weights of different lengths.
C6_ShapeMismatchBeforeKernel ==
    pc = "done" =>
        /\ ShapeMismatch =>
              /\ outcome.raised = "AssertionError"
              /\ outcome.ret = <<>>
              /\ kernel_calls = <<>>
        /\ \A k \in DOMAIN kernel_calls :
              kernel_calls[k].w # None =>
                  kernel_calls[k].data.shape[1] = kernel_calls[k].w.shape[1]

\* C6's case: mwv_histogram with fewer samples than weight rows has failed
C6_Witness ==
    /\ pc = "done" /\ call = "mwv_histogram"
    /\ args.x.shape[1] < args.weights.shape[1]
    /\ outcome.raised = "AssertionError"
    /\ kernel_calls = <<>>

\* C7 as stated: a call whose samples or weights have an element type other
\* than float32 and float64 raises a TypeError and invokes no kernel (taken
\* here for the calls on at least one sample whose shapes agree).
C7_AsStated ==
    (pc = "done" /\ ~ShapeMismatch /\ args.x.shape[1] >= 1
       /\ (\/ args.x.dtype \notin Floats
           \/ args.weights # None /\ args.weights.dtype \notin Floats)) =>
        /\ outcome.raised = "TypeError"
        /\ kernel_calls = <<>>

\* the array whose element type selects the kernel: x in histogram, weights
\* in mwv_histogram
DispatchArray == IF call = "histogram" THEN args.x ELSE args.weights

\* C7, as amended: when the array the kernel is selected on (x in histogram,
\* weights in mwv_histogram) has an element type other than float32 and
\* float64, no kernel is invoked and the call raises: a TypeError when the
\* shapes agree, the shape assertion's error when they do not.  A TypeError is
\* raised in no other case: the other array's element type is not checked,
\* the array is converted.
C7_TypeErrorOnDispatchDtype ==
    pc = "done" =>
        /\ DispatchArray.dtype \notin Floats =>
              /\ kernel_calls = <<>>
              /\ outcome.raised = IF ShapeMismatch THEN "AssertionError" ELSE "TypeError"
        /\ outcome.raised = "TypeError" => DispatchArray.dtype \notin Floats
        /\ (DispatchArray.dtype \in Floats /\ ~ShapeMismatch) =>
              /\ outcome.raised = ""
              /\ Len(kernel_calls) = 1

\* C7's case: histogram on int64 samples with float64 weights of the same shape
\* has raised a TypeError
C7_Witness ==
    /\ pc = "done" /\ call = "histogram"
    /\ args.x.dtype = "int64" /\ args.weights.dtype = "float64"
    /\ args.x.shape = args.weights.shape
    /\ outcome.raised = "TypeError"
    /\ kernel_calls = <<>>

\* C8: a call that returns gives an error array iff weights were supplied, a
\* count array of bins entries along its first axis and bins + 1 edges.
C8_ReturnedShapes ==
    Returned =>
        /\ (outcome.ret[2] # None) <=> (args.weights # None)
        /\ outcome.ret[1].shape[1] = args.bins
        /\ Len(outcome.ret[1].data) = args.bins
        /\ Len(outcome.ret[3]) = args.bins + 1

\* C8's case: an unweighted histogram of two bins has returned no error array,
\* two counts and three edges
C8_Witness ==
    /\ UnweightedReturned /\ args.bins = 2
    /\ outcome.ret[2] = None
    /\ Len(outcome.ret[1].data) = 2
    /\ Len(outcome.ret[3]) = 3

=============================================================================
